---- MODULE Spec2Model ----
(***************************************************************************)
(* The forward-reference registry (the patched ForwardRef.__init__) and    *)
(* the structural checker check_type of                                    *)
(* public/python_difficulties_in_runtime_type_checking/type_check.py.      *)
(***************************************************************************)
EXTENDS Integers, Sequences, FiniteSets, TLC

\* ------------------------------------------------------------------ bounds
\* Forward references constructed in one run.
MaxRefs == 2
\* Frames on the call stack below init.
MaxStack == 3
\* Elements of a list value.
MaxLen == 2
\* The interpreter's recursion limit, counted in nested check_type calls.
MaxDepth == 16

\* ------------------------------------------------------- frames and scopes
\* The one identifier the forward references of a run name.
Names == {"X"}

\* Source files that own a global name table.
Files == {"typing.py", "a.py", "b.py"}

\* Frames of user code: the module-level frames of a.py and b.py and the
\* frame of a function defined in a.py.
UserFrames == {"mod_a", "fn_a", "mod_b"}

\* frame.f_code.co_filename
co_filename(frame) ==
  CASE frame = "typing" -> "typing.py"
    [] frame \in {"mod_a", "fn_a"} -> "a.py"
    [] frame = "mod_b" -> "b.py"

\* A module-level frame: its f_locals is its f_globals.
IsModuleFrame(frame) == frame \in {"mod_a", "mod_b"}

\* cur is None
NoFrame == "None"

\* ------------------------------------------------------- type expressions
\* A class object used as a type: int, float, str, bool, NoneType.
Prim(kind) == [k |-> "prim", kind |-> kind]
\* typing.Union[...] / X | Y, with its get_args.
Union(members) == [k |-> "union", args |-> members]
\* List[element]
ListOf(element) == [k |-> "list", args |-> <<element>>]
\* Dict[key, value]
DictOf(key, val) == [k |-> "dict", args |-> <<key, val>>]
\* A ForwardRef instance: id(self) and __forward_arg__.
FRef(id) == [k |-> "fref", id |-> id, arg |-> "X"]
\* A TypeAliasType whose __value__ is `target`.
AliasOf(target) == [k |-> "alias", name |-> "of", target |-> target]
\* A TypeAliasType whose __value__ refers to the alias itself.
AliasNamed(name) == [k |-> "alias", name |-> name]
\* The object None bound to a name (not the class NoneType).
PyNone == [k |-> "None"]
\* The name is not a key of the table.
Absent == [k |-> "absent"]
\* The lookup raised KeyError.
Missing == [k |-> "KeyError"]

\* JsonValue312 of json_type.py: the alias refers to itself directly.
JsonValue312 ==
  Union(<<Prim("int"), Prim("float"), Prim("str"), Prim("bool"), Prim("NoneType"),
          ListOf(AliasNamed("JsonValue312")),
          DictOf(Prim("str"), AliasNamed("JsonValue312"))>>)

\* JsonValue of json_type.py: List["JsonValue"] and Dict[str, "JsonValue"]
\* each construct a ForwardRef (ids tl and td).
JsonValue(tl, td) ==
  Union(<<Prim("int"), Prim("float"), Prim("str"), Prim("bool"), Prim("NoneType"),
          ListOf(FRef(tl)), DictOf(Prim("str"), FRef(td))>>)

\* type.__value__
alias_value(type) ==
  IF type.name = "JsonValue312" THEN JsonValue312
  ELSE IF type.name = "Loop" THEN type
  ELSE type.target

\* typing.get_origin
get_origin(type) ==
  CASE type.k = "union" -> "Union"
    [] type.k = "list" -> "list"
    [] type.k = "dict" -> "dict"
    [] OTHER -> "None"

\* typing.get_args
get_args(type) == type.args

\* ------------------------------------------------------------------ values
Leaf(cls) == [cls |-> cls]
ListVal(items) == [cls |-> "list", items |-> items]
DictVal(items) == [cls |-> "dict", items |-> items]

\* ------------------------------------------------------------------- state
VARIABLES
  forward_frames,  \* id(ForwardRef) -> the frame init recorded
  made,            \* every ForwardRef constructed: id -> the call stack below init
  f_globals,       \* file -> name -> what the name is bound to
  fn_locals,       \* the locals of the function frame fn_a
  last             \* the most recent check_type call and its outcome

vars == <<forward_frames, made, f_globals, fn_locals, last>>

\* frame.f_globals
globals_of(frame) == f_globals[co_filename(frame)]
\* frame.f_locals
locals_of(frame) == IF IsModuleFrame(frame) THEN globals_of(frame) ELSE fn_locals

\* ------------------------------------------------------------- the registry
RECURSIVE f_back_while(_, _, _)
\* The walk `while cur is not None and co_filename == typing_filename`:
\* the index of the frame it stops at, 0 when it runs off the stack.
f_back_while(stack, i, typing_filename) ==
  IF i > Len(stack) THEN 0
  ELSE IF co_filename(stack[i]) = typing_filename
       THEN f_back_while(stack, i + 1, typing_filename)
       ELSE i

\* The frame init ends its walk at, for the call stack below init
\* (stack[1] is the immediate caller).
init_frame(stack) ==
  LET typing_filename == co_filename(stack[1])
      i == f_back_while(stack, 1, typing_filename)
  IN IF i = 0 THEN NoFrame ELSE stack[i]

\* The registry after init ran for the instance `id`.
init(registry, id, stack) ==
  LET cur == init_frame(stack)
  IN IF cur # NoFrame THEN (id :> cur) @@ registry ELSE registry

\* ------------------------------------------------------------- the checker
\* dict.get(name): None when the key is missing.
dict_get(table, name) == IF table[name] = Absent THEN PyNone ELSE table[name]

\* dict[name]: KeyError when the key is missing.
dict_index(table, name) == IF table[name] = Absent THEN Missing ELSE table[name]

\* What a forward reference's name resolves to in the recorded frame.
lookup(frame, name) ==
  LET next == dict_get(globals_of(frame), name)
  IN IF next = PyNone THEN dict_index(locals_of(frame), name) ELSE next

\* issubclass
issubclass(cls, kind) == cls = kind \/ (cls = "bool" /\ kind = "int")

\* isinstance(value, type) for a class `type`
isinstance(value, type) == issubclass(value.cls, type.kind)

\* The frame whose scope a forward reference is resolved in; `caller` is the
\* frame that called check_type.
resolve_frame(type, caller) == forward_frames[type.id]

RECURSIVE check_type(_, _, _, _)
RECURSIVE any_check(_, _, _, _, _)
RECURSIVE all_list(_, _, _, _, _)
RECURSIVE all_dict(_, _, _, _, _, _)

\* any() that takes a member's exception for "no match".
any_check_swallow(value, args, i, caller, depth) ==
  IF i > Len(args) THEN "False"
  ELSE LET r == check_type(value, args[i], caller, depth)
       IN IF r = "True" THEN r ELSE any_check(value, args, i + 1, caller, depth)

\* any() that stops at its first member whatever it returns.
any_check_first(value, args, i, caller, depth) ==
  IF i > Len(args) THEN "False"
  ELSE check_type(value, args[i], caller, depth)

\* any(check_type(value, x) for x in args), from member i on.
any_check(value, args, i, caller, depth) ==
  IF i > Len(args) THEN "False"
  ELSE LET r == check_type(value, args[i], caller, depth)
       IN IF r = "False" THEN any_check(value, args, i + 1, caller, depth)
          ELSE r

\* all() over the elements that checks the list itself against field_type.
all_list_no_descent(items, field_type, i, caller, depth) ==
  IF i > Len(items) THEN "True"
  ELSE LET r == check_type(ListVal(items), field_type, caller, depth)
       IN IF r = "True" THEN all_list(items, field_type, i + 1, caller, depth)
          ELSE r

\* all(check_type(element, field_type) for element in value), from element i on.
all_list(items, field_type, i, caller, depth) ==
  IF i > Len(items) THEN "True"
  ELSE LET r == check_type(items[i], field_type, caller, depth)
       IN IF r = "True" THEN all_list(items, field_type, i + 1, caller, depth)
          ELSE r

\* all(check_type(k, key_type) and check_type(v, field_type) for k, v in items)
all_dict(items, key_type, field_type, i, caller, depth) ==
  IF i > Len(items) THEN "True"
  ELSE LET rk == check_type(items[i][1], key_type, caller, depth)
       IN IF rk # "True" THEN rk
          ELSE LET rv == check_type(items[i][2], field_type, caller, depth)
               IN IF rv = "True"
                  THEN all_dict(items, key_type, field_type, i + 1, caller, depth)
                  ELSE rv

\* check_type(value, type): "True", "False", or the exception it raises.
\* `depth` is the number of nested calls the interpreter still allows.
check_type(value, type, caller, depth) ==
  IF depth = 0 THEN "RecursionError"
  ELSE IF get_origin(type) = "Union"
    THEN any_check(value, get_args(type), 1, caller, depth - 1)
  ELSE IF type.k = "alias"
    THEN check_type(value, alias_value(type), caller, depth - 1)
  ELSE IF type.k = "fref"
    THEN IF type.id \notin DOMAIN forward_frames THEN "KeyError"
         ELSE LET next == lookup(resolve_frame(type, caller), type.arg)
              IN IF next = Missing THEN "KeyError"
                 ELSE check_type(value, next, caller, depth - 1)
  ELSE IF get_origin(type) = "list"
    THEN IF value.cls = "list"
         THEN all_list(value.items, get_args(type)[1], 1, caller, depth - 1)
         ELSE "False"
  ELSE IF get_origin(type) = "dict"
    THEN IF value.cls = "dict"
         THEN all_dict(value.items, get_args(type)[1], get_args(type)[2], 1,
                       caller, depth - 1)
         ELSE "False"
  ELSE IF type.k # "prim" THEN "TypeError"
  ELSE IF isinstance(value, type) THEN "True"
  ELSE "False"

\* ------------------------------------------------------------------ inputs
\* Call stacks below init, innermost frame first: frames of typing.py (the
\* machinery that builds List["X"]) above distinct frames of user code, the
\* outermost being a module-level frame.
WellFormedStack(s) ==
  /\ IsModuleFrame(s[Len(s)])
  /\ \E n \in 0..(Len(s) - 1) :
       /\ \A i \in 1..n : s[i] = "typing"
       /\ \A i \in (n + 1)..Len(s) : s[i] \in UserFrames
  /\ \A i, j \in 1..Len(s) : (i # j /\ s[i] = s[j]) => s[i] = "typing"

Stacks ==
  {s \in UNION {[1..n -> UserFrames \cup {"typing"}] : n \in 1..MaxStack} :
     WellFormedStack(s)}

\* Classes used as types and as the classes of leaf values.
Kinds == {"int", "float", "str", "bool", "NoneType"}
LeafValues == {Leaf(c) : c \in Kinds \cup {"set"}}
InnerLeaves == {Leaf("int"), Leaf("str"), Leaf("bool")}

SeqsUpTo(S, n) == UNION {[1..m -> S] : m \in 0..n}

Lists1 == {ListVal(items) : items \in SeqsUpTo(InnerLeaves, MaxLen)}
Dicts1 ==
  {DictVal(<<>>), DictVal(<<<<Leaf("str"), Leaf("int")>>, <<Leaf("int"), Leaf("str")>>>>)}
    \cup {DictVal(<<<<key, x>>>>) : key \in {Leaf("str"), Leaf("int")}, x \in InnerLeaves}
Short1 == {ListVal(items) : items \in SeqsUpTo(InnerLeaves, 1)}
Nested ==
  {ListVal(<<x>>) : x \in Short1 \cup Dicts1 \cup {Leaf("set")}}
    \cup {ListVal(<<Leaf("int"), x>>) : x \in Short1}
    \cup {DictVal(<<<<Leaf("str"), x>>>>) : x \in Short1}
    \cup {ListVal(<<Leaf("int"), ListVal(<<Leaf("int"), ListVal(<<x>>)>>)>>) :
            x \in {Leaf("int"), Leaf("str")}}

\* The values check_type is called with.
Values == LeafValues \cup Lists1 \cup Dicts1 \cup Nested

\* J = Union[int, List["J"]], with the ForwardRef `id`.
J(id) == Union(<<Prim("int"), ListOf(FRef(id))>>)

\* typing collapses equal members of a Union, and two ForwardRefs of one name
\* are equal.
PyEqual(a, b) ==
  \/ a = b
  \/ a.k = "fref" /\ b.k = "fref"
  \/ a.k = "list" /\ b.k = "list" /\ a.args[1].k = "fref" /\ b.args[1].k = "fref"

Refs == {FRef(id) : id \in 1..2}
Atoms == {Prim(kind) : kind \in Kinds} \cup Refs
Containers ==
  {ListOf(a) : a \in {Prim("int"), Prim("str")} \cup Refs}
    \cup {DictOf(Prim("str"), a) : a \in {Prim("int")} \cup Refs}
UnionMembers == {Prim("int"), Prim("str"), ListOf(FRef(1))} \cup Refs
Unions == {Union(<<a, b>>) : a, b \in UnionMembers}
Aliases ==
  {AliasNamed("JsonValue312"), AliasNamed("Loop"), AliasOf(FRef(1)),
   AliasOf(J(1)), AliasOf(JsonValue(1, 2))}

\* The type expressions check_type is called with.
TypeExprs ==
  Atoms \cup Containers \cup Aliases \cup {JsonValue(1, 2)}
    \cup {u \in Unions : ~PyEqual(u.args[1], u.args[2])}

\* What the lifecycle binds a name to.
BindVals == {PyNone, Prim("int"), Prim("str")}

\* ----------------------------------------------------------------- actions
NoCall == [done |-> FALSE]

NoBindings == [name \in Names |-> Absent]

Init ==
  /\ forward_frames = <<>>
  /\ made = <<>>
  /\ f_globals = [file \in Files |-> NoBindings]
  /\ fn_locals = NoBindings
  /\ last = NoCall

\* ForwardRef(name) is constructed with `stack` below the patched __init__.
Construct(stack) ==
  LET id == Cardinality(DOMAIN made) + 1
  IN /\ id <= MaxRefs
     /\ forward_frames' = init(forward_frames, id, stack)
     /\ made' = (id :> stack) @@ made
     /\ last' = NoCall
     /\ UNCHANGED <<f_globals, fn_locals>>

\* User code binds (or, with Absent, deletes) a global name of a file.
BindGlobal(file, name, val) ==
  /\ f_globals[file][name] # val
  /\ f_globals' = [f_globals EXCEPT ![file][name] = val]
  /\ last' = NoCall
  /\ UNCHANGED <<forward_frames, made, fn_locals>>

\* The function fn_a binds (or deletes) a local name.
BindLocal(name, val) ==
  /\ fn_locals[name] # val
  /\ fn_locals' = [fn_locals EXCEPT ![name] = val]
  /\ last' = NoCall
  /\ UNCHANGED <<forward_frames, made, f_globals>>

\* check_type(value, type) is called from the frame `caller`; the program is
\* single-threaded, so no other call is in progress.
CheckCall(value, type, caller) ==
  /\ ~last.done
  /\ last' = [done |-> TRUE, value |-> value, type |-> type, caller |-> caller,
              outcome |-> check_type(value, type, caller, MaxDepth)]
  /\ UNCHANGED <<forward_frames, made, f_globals, fn_locals>>

\* The caller has consumed the outcome of the call.
Return ==
  /\ last.done
  /\ last' = NoCall
  /\ UNCHANGED <<forward_frames, made, f_globals, fn_locals>>

Next ==
  \/ \E stack \in Stacks : Construct(stack)
  \/ \E file \in {"a.py", "b.py"}, name \in Names, val \in BindVals \cup {Absent} :
       BindGlobal(file, name, val)
  \/ \E name \in Names, val \in BindVals \cup {Absent} : BindLocal(name, val)
  \/ \E value \in {Leaf("int"), Leaf("str")}, id \in DOMAIN made, caller \in UserFrames :
       CheckCall(value, FRef(id), caller)
  \/ Return

Spec == Init /\ [][Next]_vars

\* ------------------------------------------- the checker on built scopes
\* The scopes a.py leaves behind once loaded: the name bound to a recursive
\* alias over its own forward references, to a plain class, to None, to the
\* forward reference itself, or not bound at all.
LoadedGlobals ==
  {Absent, PyNone, Prim("int"), J(1), JsonValue(1, 2), FRef(1),
   Union(<<Prim("str"), FRef(2)>>)}
LoadedLocals == {Absent, Prim("str"), ListOf(FRef(1))}

\* ForwardRef 1 is built by typing for module a.py; ForwardRef 2 is built by
\* typing for a.py or for its function, or directly by the script b.py.
LoadedStacks1 == {<<"typing", "typing", "mod_a">>}
LoadedStacks2 ==
  {<<"typing", "typing", "mod_a">>, <<"typing", "fn_a", "mod_a">>, <<"mod_b">>}

InitChecker ==
  \E s1 \in LoadedStacks1, s2 \in LoadedStacks2, g \in LoadedGlobals, l \in LoadedLocals :
    /\ forward_frames = init(init(<<>>, 1, s1), 2, s2)
    /\ made = (2 :> s2) @@ (1 :> s1)
    /\ f_globals = [file \in Files |-> [name \in Names |-> IF file = "a.py" THEN g ELSE Absent]]
    /\ fn_locals = [name \in Names |-> l]
    /\ last = NoCall

NextChecker ==
  \/ \E value \in Values, type \in TypeExprs : CheckCall(value, type, "mod_b")
  \/ Return

SpecChecker == InitChecker /\ [][NextChecker]_vars

\* ------------------------------------------------ vocabulary of the claims
\* The scope a forward reference was written in: the first frame of user
\* code, walking outward from the constructor's immediate caller.
FirstUserFrame(stack) ==
  stack[CHOOSE i \in 1..Len(stack) :
          stack[i] \in UserFrames /\ \A j \in 1..(i - 1) : stack[j] \notin UserFrames]

\* What a name is bound to in a scope: the local binding shadows the global.
ScopeBinding(frame, name) ==
  IF locals_of(frame)[name] # Absent THEN locals_of(frame)[name]
  ELSE globals_of(frame)[name]

\* The outcome of the check the call of `last` delegates to, one call deeper.
Sub(value, type) == check_type(value, type, last.caller, MaxDepth - 1)

\* The classes a name is bound to as a type expression.
Classes == {Prim(kind) : kind \in Kinds}

IsBool(outcome) == outcome \in {"True", "False"}

\* The forward reference was built by the typing machinery (List["X"]), not
\* by user code calling ForwardRef itself.
BuiltByTyping(id) == made[id][1] = "typing"

\* The last call checked a forward reference built by the typing machinery.
LastIsRef == last.done /\ last.type.k = "fref" /\ BuiltByTyping(last.type.id)

\* ------------------------------------------------------------ the registry
\* C4: every constructed ForwardRef has an entry in forward_frames keyed by
\* its id, recorded by the time the constructor has returned.
C4_RegistryInvariant == \A id \in DOMAIN made : id \in DOMAIN forward_frames

\* C10: the frame recorded for a forward reference is the first frame of user
\* code on the stack below the constructor; no frame of user code is skipped.
C10_ScopeCaptureWalk ==
  \A id \in DOMAIN made \cap DOMAIN forward_frames :
    forward_frames[id] = FirstUserFrame(made[id])

\* ---------------------------------------------------------- scope and lookup
\* C1: of two forward references of one name written in two scopes that bind
\* the name to different type expressions, each is checked against the
\* binding of the scope it was written in, whatever frame calls check_type.
C1_ScopeFidelity ==
  LastIsRef =>
    LET S1 == FirstUserFrame(made[last.type.id])
        T1 == ScopeBinding(S1, last.type.arg)
    IN (\E other \in DOMAIN made :
          LET S2 == FirstUserFrame(made[other])
              T2 == ScopeBinding(S2, last.type.arg)
          IN /\ other # last.type.id /\ BuiltByTyping(other)
             /\ S2 # S1 /\ T1 # T2 /\ {T1, T2} \subseteq Classes)
       => last.outcome = Sub(last.value, T1)

\* C3: when the recorded scope binds the name in its local and in its global
\* table to different type expressions, the check is made against the local one.
C3_LocalWins ==
  (LastIsRef /\ last.type.id \in DOMAIN forward_frames) =>
    LET frame == forward_frames[last.type.id]
        L == locals_of(frame)[last.type.arg]
        G == globals_of(frame)[last.type.arg]
    IN (L # G /\ {L, G} \subseteq Classes) => last.outcome = Sub(last.value, L)

\* C6: for a registered forward reference whose name is bound in the local or
\* the global table of the recorded scope (to None included), check_type does
\* not raise the lookup error but returns the check against a bound expression.
C6_UnresolvableOnlyIfAbsent ==
  (LastIsRef /\ last.type.id \in DOMAIN forward_frames) =>
    LET frame == forward_frames[last.type.id]
        bound == {locals_of(frame)[last.type.arg], globals_of(frame)[last.type.arg]}
                   \ {Absent}
    IN bound # {} => last.outcome \in {Sub(last.value, b) : b \in bound}

\* ------------------------------------------------------------- primitives
\* C7: a class used as a type matches exactly the values of that class; bool
\* and int are distinct, so check_type(True, int) is false.
C7_PrimitiveExact ==
  (last.done /\ last.type.k = "prim") =>
    (last.outcome = "True" <=> last.value.cls = last.type.kind)

\* --------------------------------------------------------- recursive aliases
\* The classes among the members of an alias, and whether it has a Dict member.
LeafKinds(type) == {type.args[i].kind : i \in {j \in DOMAIN type.args : type.args[j].k = "prim"}}
HasDict(type) == \E i \in DOMAIN type.args : type.args[i].k = "dict"

RECURSIVE BuiltFrom(_, _, _)
\* The value is built only from leaves of the given classes, lists of such
\* values and (where allowed) string-keyed dicts of such values.
BuiltFrom(value, kinds, dicts) ==
  CASE value.cls = "list" ->
         \A i \in DOMAIN value.items : BuiltFrom(value.items[i], kinds, dicts)
    [] value.cls = "dict" ->
         /\ dicts
         /\ \A i \in DOMAIN value.items :
              /\ value.items[i][1] = Leaf("str")
              /\ BuiltFrom(value.items[i][2], kinds, dicts)
    [] OTHER -> value.cls \in kinds

RECURSIVE HasForeignLeaf(_, _)
\* The value contains a leaf of a class that is not among `kinds`.
HasForeignLeaf(value, kinds) ==
  CASE value.cls = "list" ->
         \E i \in DOMAIN value.items : HasForeignLeaf(value.items[i], kinds)
    [] value.cls = "dict" ->
         \E i \in DOMAIN value.items :
           \/ HasForeignLeaf(value.items[i][1], kinds)
           \/ HasForeignLeaf(value.items[i][2], kinds)
    [] OTHER -> value.cls \notin kinds

\* The recursive aliases of module a.py: the name is bound to the alias, and
\* the forward references inside it were built by typing for that module.
BoundRecursiveAliases ==
  {t \in {J(1), JsonValue(1, 2)} :
     /\ f_globals["a.py"]["X"] = t
     /\ \A i \in DOMAIN t.args :
          t.args[i].k \in {"list", "dict"} =>
            LET ref == t.args[i].args[Len(t.args[i].args)]
            IN /\ made[ref.id] = <<"typing", "typing", "mod_a">>
               /\ ref.id \in DOMAIN forward_frames}

\* C2: against a recursive alias bound in the scope its forward references
\* captured, every value built from the alias's leaf classes, lists and (for
\* JsonValue) string-keyed dicts checks true, and every value that contains a
\* leaf of another class checks false.
C2_RecursiveAliasRoundTrip ==
  (last.done /\ last.type \in BoundRecursiveAliases) =>
    /\ BuiltFrom(last.value, LeafKinds(last.type), HasDict(last.type))
         => last.outcome = "True"
    /\ HasForeignLeaf(last.value, LeafKinds(last.type)) => last.outcome = "False"

\* ------------------------------------------------------------------- errors
RECURSIVE Arises(_, _, _)
\* A lookup error arises while `value` is checked against `type`: following
\* the members in order, a forward reference that is not registered, or whose
\* name cannot be resolved in its scope, is reached before the check is decided.
Arises(value, type, depth) ==
  IF depth = 0 THEN FALSE
  ELSE CASE type.k = "fref" ->
              \/ type.id \notin DOMAIN forward_frames
              \/ LET next == lookup(forward_frames[type.id], type.arg)
                 IN IF next = Missing THEN TRUE ELSE Arises(value, next, depth - 1)
         [] type.k = "alias" -> Arises(value, alias_value(type), depth - 1)
         [] type.k = "union" ->
              \E i \in DOMAIN type.args :
                /\ Arises(value, type.args[i], depth - 1)
                /\ \A j \in 1..(i - 1) :
                     check_type(value, type.args[j], last.caller, depth - 1) = "False"
         [] type.k = "list" ->
              /\ value.cls = "list"
              /\ \E i \in DOMAIN value.items :
                   /\ Arises(value.items[i], type.args[1], depth - 1)
                   /\ \A j \in 1..(i - 1) :
                        check_type(value.items[j], type.args[1], last.caller, depth - 1) = "True"
         [] type.k = "dict" ->
              /\ value.cls = "dict"
              /\ \E i \in DOMAIN value.items :
                   /\ \A j \in 1..(i - 1) :
                        /\ check_type(value.items[j][1], type.args[1], last.caller, depth - 1) = "True"
                        /\ check_type(value.items[j][2], type.args[2], last.caller, depth - 1) = "True"
                   /\ \/ Arises(value.items[i][1], type.args[1], depth - 1)
                      \/ /\ check_type(value.items[i][1], type.args[1], last.caller, depth - 1) = "True"
                         /\ Arises(value.items[i][2], type.args[2], depth - 1)
         [] OTHER -> FALSE

\* C5: checking a forward reference with no registry entry, or a registered
\* one whose name is in neither table of its scope, raises the lookup error;
\* a lookup error that arises at any depth of a Union, List, Dict or alias
\* traversal is the outcome of the top-level call, never "False" or "True".
C5_ErrorsPropagate ==
  last.done =>
    /\ (last.type.k = "fref" /\ last.type.id \notin DOMAIN forward_frames)
         => last.outcome = "KeyError"
    /\ (/\ last.type.k = "fref" /\ last.type.id \in DOMAIN forward_frames
        /\ locals_of(forward_frames[last.type.id])[last.type.arg] = Absent
        /\ globals_of(forward_frames[last.type.id])[last.type.arg] = Absent)
         => last.outcome = "KeyError"
    /\ Arises(last.value, last.type, MaxDepth) => last.outcome = "KeyError"

\* A lookup error arose three levels down (Union, List, forward reference)
\* and is the outcome of the call.
C5_Witness ==
  /\ last.done /\ last.outcome = "KeyError"
  /\ last.type.k = "union" /\ last.type.args[2].k = "list"
  /\ last.type.args[2].args[1].k = "fref"
  /\ last.value.cls = "list" /\ Len(last.value.items) = 2
  /\ Arises(last.value.items[2], last.type.args[2].args[1], MaxDepth)

\* ------------------------------------------------------------------- unions
IsPair(type) == type.k = "union" /\ Len(type.args) = 2
Swapped(type) == Union(<<type.args[2], type.args[1]>>)
Or(a, b) == IF a = "True" \/ b = "True" THEN "True" ELSE "False"

\* C8 as stated: Union([A, B]) and Union([B, A]) give the same outcome for
\* every value and every pair of members, forward references included (here
\* with every name unbound or bound to a type expression, never to None).
C8_OrderIndependent ==
  (last.done /\ IsPair(last.type) /\ f_globals["a.py"]["X"] # PyNone) =>
    last.outcome = check_type(last.value, Swapped(last.type), last.caller, MaxDepth)

\* C8 as amended: when the checks against both members return a boolean, both
\* orders return check(v, A) or check(v, B); when a member's check raises, the
\* union returns true if an earlier member matched and raises otherwise, so
\* two orders never return different booleans.
C8_OrderIndependentUnlessRaising ==
  (last.done /\ IsPair(last.type)) =>
    LET a == Sub(last.value, last.type.args[1])
        b == Sub(last.value, last.type.args[2])
        swapped == check_type(last.value, Swapped(last.type), last.caller, MaxDepth)
    IN /\ (IsBool(a) /\ IsBool(b)) => (last.outcome = Or(a, b) /\ swapped = last.outcome)
       /\ a = "True" => last.outcome = "True"
       /\ (~IsBool(a)) => last.outcome = a
       /\ (a = "False" /\ ~IsBool(b)) => last.outcome = b
       /\ (IsBool(last.outcome) /\ IsBool(swapped)) => swapped = last.outcome

\* The second member matches after the first did not, where one of the two
\* resolves a forward reference.
C8_Witness ==
  /\ last.done /\ IsPair(last.type) /\ last.outcome = "True"
  /\ Sub(last.value, last.type.args[1]) = "False"
  /\ last.type.args[2].k = "fref"
  /\ check_type(last.value, Swapped(last.type), last.caller, MaxDepth) = "True"

\* -------------------------------------------------------------- termination
\* The type expressions a check moves to without taking the value apart.
BareSucc(type) ==
  CASE type.k = "union" -> {type.args[i] : i \in DOMAIN type.args}
    [] type.k = "alias" -> {alias_value(type)}
    [] type.k = "fref" ->
         IF type.id \in DOMAIN forward_frames
         THEN {lookup(forward_frames[type.id], type.arg)} \ {Missing}
         ELSE {}
    [] OTHER -> {}

\* Every type expression a check moves to from `type`.
AllSucc(type) ==
  IF type.k \in {"list", "dict"} THEN {type.args[i] : i \in DOMAIN type.args}
  ELSE BareSucc(type)

RECURSIVE BareReach(_)
BareReach(S) ==
  LET T == S \cup UNION {BareSucc(n) : n \in S}
  IN IF T = S THEN S ELSE BareReach(T)

RECURSIVE AllReach(_)
AllReach(S) ==
  LET T == S \cup UNION {AllSucc(n) : n \in S}
  IN IF T = S THEN S ELSE AllReach(T)

\* Every cycle of the type graph under `type` passes through a List or a Dict.
Guarded(type) == \A n \in AllReach({type}) : n \notin BareReach(BareSucc(n))

\* The type graph under `type` has a cycle.
Cyclic(type) == \E n \in AllReach({type}) : n \in AllReach(AllSucc(n))

SetMax(S) == IF S = {} THEN 0 ELSE CHOOSE x \in S : \A y \in S : y <= x

RECURSIVE BareHeight(_)
\* The longest chain of type expressions a check can follow from `type`
\* without taking the value apart (defined for guarded graphs).
BareHeight(type) == 1 + SetMax({BareHeight(n) : n \in BareSucc(type)})

RECURSIVE Nesting(_)
\* How deeply lists and dicts are nested in the value.
Nesting(value) ==
  CASE value.cls = "list" ->
         1 + SetMax({Nesting(value.items[i]) : i \in DOMAIN value.items})
    [] value.cls = "dict" ->
         1 + SetMax({Nesting(value.items[i][1]) : i \in DOMAIN value.items}
                      \cup {Nesting(value.items[i][2]) : i \in DOMAIN value.items})
    [] OTHER -> 0

\* C9: against a type graph whose every cycle passes through a List or a Dict
\* the check completes (it does not recurse until the interpreter stops it),
\* and the calls it nests are bounded by the nesting of the value: one chain
\* of the type graph per level of the value.
C9_TerminatesOnGuardedCycles ==
  (last.done /\ Guarded(last.type)) =>
    LET need == (Nesting(last.value) + 1)
                  * SetMax({BareHeight(n) : n \in AllReach({last.type})})
    IN /\ last.outcome # "RecursionError"
       /\ need <= MaxDepth
       /\ check_type(last.value, last.type, last.caller, need) = last.outcome

\* A value nested three deep conforms to a cyclic type.
C9_Witness ==
  /\ last.done /\ Guarded(last.type) /\ Cyclic(last.type)
  /\ Nesting(last.value) >= 3 /\ last.outcome = "True"

====
